---- MODULE Spec2Model ----
(***************************************************************************)
(* Announcements router (src/backend/routers/announcements.py): five       *)
(* request handlers over a MongoDB collection of announcement documents    *)
(* and a read-only collection of teachers.                                 *)
(*                                                                         *)
(* Python values are records [t, s]: None, a str (s is its sequence of     *)
(* characters, characters are naturals) or the marker of a key that is     *)
(* missing from a dict.  Strings are compared as MongoDB and Python        *)
(* compare them: lexicographically, character by character.                *)
(***************************************************************************)
EXTENDS Integers, Sequences, FiniteSets, TLC

VARIABLES store, issued, creator, prev, req, resp, today, listed, pc, preq, presp

vars == <<store, issued, creator, prev, req, resp, today, listed, pc, preq, presp>>

(* ------------------------------ bounds --------------------------------- *)

\* number of ids uuid4 hands out in a run of Spec
MaxIds == 2

\* number of documents in the collections SpecList lists
MaxDocs == 2

(* --------------------------- Python values ----------------------------- *)

None == [t |-> "none", s |-> <<>>]
Absent == [t |-> "absent", s |-> <<>>]
Str(chars) == [t |-> "str", s |-> chars]
IsStr(v) == v.t = "str"

\* `not v` for None and str
Falsy(v) == v = None \/ v = Str(<<>>)

\* dict.get(key): a missing key reads as None
Get(v) == IF v = Absent THEN None ELSE v

\* str(v): a str is itself, None becomes the text "None"
NoneText == Str(<<78, 111, 110, 101>>)
PyStr(v) == IF IsStr(v) THEN v ELSE NoneText

\* a <= b on strings: lexicographic on the characters, a prefix is smaller
RECURSIVE LexLeq(_, _)
LexLeq(a, b) ==
    IF a = <<>> THEN TRUE
    ELSE IF b = <<>> THEN FALSE
    ELSE IF Head(a) < Head(b) THEN TRUE
    ELSE IF Head(a) > Head(b) THEN FALSE
    ELSE LexLeq(Tail(a), Tail(b))

(* ----------------------------- collections ----------------------------- *)

\* teachers_collection: the usernames that have a document
t1 == Str(<<1>>)
t2 == Str(<<2>>)
teachers_collection == {t1, t2}

\* teachers_collection.find_one({"_id": username}) is truthy
TeacherFound(username) == username \in teachers_collection

\* announcements_collection.find_one({"_id": id}): the documents it can return
FindOne(coll, id) == {d \in coll : d._id = id}

\* insert_one: _id is unique in a collection; a duplicate _id is refused
\* with DuplicateKeyError
DuplicateKey(coll, doc) == FindOne(coll, doc._id) # {}
InsertOne(coll, doc) == IF DuplicateKey(coll, doc) THEN coll ELSE coll \cup {doc}

\* update_one(filter by _id, $set fields): fields holds Absent for the keys
\* that are not in the $set document
SetFields(d, fields) ==
    [d EXCEPT !.text = IF fields.text = Absent THEN @ ELSE fields.text,
              !.start_date =
                  IF fields.start_date = Absent THEN @ ELSE fields.start_date,
              !.expiration_date =
                  IF fields.expiration_date = Absent THEN @
                  ELSE fields.expiration_date]

\* mutant: the filter is dropped, every document is updated
UpdateOne_NoFilter(coll, id, fields) == {SetFields(d, fields) : d \in coll}

UpdateOne(coll, id, fields) ==
    {IF d._id = id THEN SetFields(d, fields) ELSE d : d \in coll}

\* delete_one(filter by _id): the collection afterwards; deleted_count is
\* the number of documents removed
DeleteOne(coll, id) == {d \in coll : d._id # id}
DeletedCount(coll, id) == Cardinality(coll) - Cardinality(DeleteOne(coll, id))

(* ----------------------------- _serialize ------------------------------ *)

_serialize(doc) ==
    [id |-> PyStr(Get(doc._id)),
     text |-> Get(doc.text),
     start_date |-> Get(doc.start_date),
     expiration_date |-> Get(doc.expiration_date),
     created_by |-> Get(doc.created_by)]

(* ------------------------------ responses ------------------------------ *)

NoBody == [id |-> None, text |-> None, start_date |-> None,
           expiration_date |-> None, created_by |-> None]

Response(status, body) == [status |-> status, body |-> body]
HTTPException(status) == Response(status, NoBody)

(* ------------------------------ handlers ------------------------------- *)

\* mutant: the teacher is not looked up
Unauthenticated_NoLookup(teacher_username) == Falsy(teacher_username)

\* the 401 checks every write handler starts with
Unauthenticated(teacher_username) ==
    Falsy(teacher_username) \/ ~TeacherFound(teacher_username)

\* mutant: expiration_date is checked with `is None`, so "" is accepted
create_announcement_NoneCheck(coll, payload, teacher_username, uuid) ==
    LET new_doc == [_id |-> uuid, text |-> Get(payload.text),
                    start_date |-> Get(payload.start_date),
                    expiration_date |-> Get(payload.expiration_date),
                    created_by |-> teacher_username]
    IN  IF Falsy(teacher_username) \/ ~TeacherFound(teacher_username)
        THEN [coll |-> coll, resp |-> HTTPException(401)]
        ELSE IF Get(payload.expiration_date) = None
        THEN [coll |-> coll, resp |-> HTTPException(400)]
        ELSE [coll |-> InsertOne(coll, new_doc),
              resp |-> Response(200, _serialize(new_doc))]

\* create_announcement: the collection and the response it produces
create_announcement(coll, payload, teacher_username, uuid) ==
    LET text == Get(payload.text)
        expiration_date == Get(payload.expiration_date)
        start_date == Get(payload.start_date)
        new_doc == [_id |-> uuid, text |-> text, start_date |-> start_date,
                    expiration_date |-> expiration_date,
                    created_by |-> teacher_username]
    IN  IF Unauthenticated(teacher_username)
        THEN [coll |-> coll, resp |-> HTTPException(401)]
        ELSE IF Falsy(expiration_date)
        THEN [coll |-> coll, resp |-> HTTPException(400)]
        ELSE IF DuplicateKey(coll, new_doc)
        THEN [coll |-> InsertOne(coll, new_doc), resp |-> HTTPException(500)]
        ELSE [coll |-> InsertOne(coll, new_doc),
              resp |-> Response(200, _serialize(new_doc))]

\* the empty $set document
NoFields == [text |-> Absent, start_date |-> Absent, expiration_date |-> Absent]

\* mutant: a key that is present is set, also when its value is null
update_fields_KeyPresent(payload) ==
    [text |-> payload.text, start_date |-> payload.start_date,
     expiration_date |-> payload.expiration_date]

\* the $set document update_announcement builds from the payload
update_fields(payload) ==
    [text |-> IF Get(payload.text) # None THEN payload.text ELSE Absent,
     start_date |->
         IF Get(payload.start_date) # None THEN payload.start_date ELSE Absent,
     expiration_date |->
         IF Get(payload.expiration_date) # None THEN payload.expiration_date
         ELSE Absent]

\* the last two lines of update_announcement: find_one again and serialize
\* what it returns; _serialize(None) raises AttributeError, which the
\* framework answers with 500
Reread(coll, announcement_id) ==
    IF FindOne(coll, announcement_id) = {}
    THEN HTTPException(500)
    ELSE Response(200, _serialize(CHOOSE d \in FindOne(coll, announcement_id) : TRUE))

\* mutant: the payload is validated before the document is looked up
update_announcement_ValidateFirst(coll, announcement_id, payload, teacher_username) ==
    LET after == UpdateOne(coll, announcement_id, update_fields(payload))
    IN  IF Falsy(teacher_username) \/ ~TeacherFound(teacher_username)
        THEN [coll |-> coll, resp |-> HTTPException(401)]
        ELSE IF update_fields(payload) = NoFields
        THEN [coll |-> coll, resp |-> HTTPException(400)]
        ELSE IF FindOne(coll, announcement_id) = {}
        THEN [coll |-> coll, resp |-> HTTPException(404)]
        ELSE [coll |-> after, resp |-> Reread(after, announcement_id)]

\* mutant: the update also records the editor as created_by
update_announcement_StampEditor(coll, announcement_id, payload, teacher_username) ==
    LET after == {IF d._id = announcement_id
                  THEN [SetFields(d, update_fields(payload))
                            EXCEPT !.created_by = teacher_username]
                  ELSE d : d \in coll}
    IN  IF Falsy(teacher_username) \/ ~TeacherFound(teacher_username)
        THEN [coll |-> coll, resp |-> HTTPException(401)]
        ELSE IF FindOne(coll, announcement_id) = {}
        THEN [coll |-> coll, resp |-> HTTPException(404)]
        ELSE IF update_fields(payload) = NoFields
        THEN [coll |-> coll, resp |-> HTTPException(400)]
        ELSE [coll |-> after, resp |-> Reread(after, announcement_id)]

\* update_announcement with nothing running between its store calls
update_announcement(coll, announcement_id, payload, teacher_username) ==
    LET after == UpdateOne(coll, announcement_id, update_fields(payload))
    IN  IF Unauthenticated(teacher_username)
        THEN [coll |-> coll, resp |-> HTTPException(401)]
        ELSE IF FindOne(coll, announcement_id) = {}
        THEN [coll |-> coll, resp |-> HTTPException(404)]
        ELSE IF update_fields(payload) = NoFields
        THEN [coll |-> coll, resp |-> HTTPException(400)]
        ELSE [coll |-> after, resp |-> Reread(after, announcement_id)]

\* mutant: deleted_count is not looked at
DeleteResponse_AlwaysOk(deleted_count) == Response(200, NoBody)

\* the response delete_announcement makes of deleted_count
DeleteResponse(deleted_count) ==
    IF deleted_count = 0 THEN HTTPException(404) ELSE Response(200, NoBody)

\* delete_announcement
delete_announcement(coll, announcement_id, teacher_username) ==
    IF Unauthenticated(teacher_username)
    THEN [coll |-> coll, resp |-> HTTPException(401)]
    ELSE [coll |-> DeleteOne(coll, announcement_id),
          resp |-> DeleteResponse(DeletedCount(coll, announcement_id))]

(* ------------------------------ listings ------------------------------- *)

\* mutant: $gt instead of $gte, a record that expires today is left out
ActiveQuery_Gt(d, day) ==
    /\ IsStr(d.expiration_date) /\ ~LexLeq(d.expiration_date.s, day.s)
    /\ \/ IsStr(d.start_date) /\ LexLeq(d.start_date.s, day.s)
       \/ d.start_date = None \/ d.start_date = Absent

\* the query of get_active_announcements: $gte and $lte compare a string
\* with strings only; {"start_date": None} matches null and a missing field
ActiveQuery(d, day) ==
    /\ IsStr(d.expiration_date) /\ LexLeq(day.s, d.expiration_date.s)
    /\ \/ IsStr(d.start_date) /\ LexLeq(d.start_date.s, day.s)
       \/ d.start_date = None \/ d.start_date = Absent
       \/ d.start_date = Absent

\* the order of sort("expiration_date", 1): null and missing before strings
SortLeq(a, b) ==
    IF ~IsStr(a) THEN TRUE
    ELSE IF ~IsStr(b) THEN FALSE
    ELSE LexLeq(a.s, b.s)

\* find(...).sort("expiration_date", 1): the cursors it can produce; the
\* order of documents with equal keys is the store's choice
Sort(docs) ==
    {f \in [1..Cardinality(docs) -> docs] :
        /\ \A i, j \in 1..Cardinality(docs) : i # j => f[i] # f[j]
        /\ \A i, j \in 1..Cardinality(docs) :
               i < j => SortLeq(f[i].expiration_date, f[j].expiration_date)}

\* the results get_active_announcements can return
get_active_announcements(coll, day) ==
    {[i \in 1..Len(f) |-> _serialize(f[i])] :
        f \in Sort({d \in coll : ActiveQuery(d, day)})}

\* mutant: find() without sort
get_all_announcements_Unsorted(coll) ==
    {[i \in 1..Len(f) |-> _serialize(f[i])] :
        f \in {g \in [1..Cardinality(coll) -> coll] :
                  \A i, j \in 1..Cardinality(coll) : i # j => g[i] # g[j]}}

\* the results get_all_announcements can return
get_all_announcements(coll) ==
    {[i \in 1..Len(f) |-> _serialize(f[i])] : f \in Sort(coll)}

NoList == [status |-> 0, body |-> <<>>]
NoLists == [active |-> NoList, all |-> NoList]

(* --------------------------- request inputs ---------------------------- *)

\* what a payload can hold under a key: nothing, null, "" or a text
PayloadValues == {Absent, None, Str(<<>>), Str(<<1>>)}
Payloads == [text : PayloadValues, start_date : PayloadValues,
             expiration_date : PayloadValues]
EmptyPayload == [text |-> Absent, start_date |-> Absent, expiration_date |-> Absent]

\* teacher_username: not given, empty, two teachers and a stranger
Usernames == {None, Str(<<>>), t1, t2, Str(<<3>>)}

\* the ids uuid4 can return, and an id no document ever has
Ids == {Str(<<i>>) : i \in 1..MaxIds}
UnknownId == Str(<<0>>)
PathIds == Ids \cup {UnknownId}

\* uuid.uuid4(): an id that was never returned before
uuid4 == Ids \ issued

Request(op, id, payload, username) ==
    [op |-> op, id |-> id, payload |-> payload, username |-> username]
NoRequest == Request("none", None, EmptyPayload, None)
NoResponse == Response(0, NoBody)

(* ------------------- Spec: one request after another ------------------- *)
(* req, resp and prev record the request being answered, its response and  *)
(* the collection it found; Return forgets them when the response is sent. *)

Init ==
    /\ store = {}
    /\ issued = {}
    /\ creator = {}
    /\ prev = {}
    /\ req = NoRequest
    /\ resp = NoResponse
    /\ today = None
    /\ listed = NoLists
    /\ pc = <<>>
    /\ preq = <<>>
    /\ presp = <<>>

\* POST /announcements
Create ==
    /\ req = NoRequest
    /\ \E payload \in Payloads, username \in Usernames, uuid \in uuid4 :
        LET r == create_announcement(store, payload, username, uuid)
        IN  /\ store' = r.coll
            /\ resp' = r.resp
            /\ req' = Request("create", None, payload, username)
            /\ prev' = store
            /\ issued' = IF r.resp.status = 200 THEN issued \cup {uuid} ELSE issued
            /\ creator' =
                   IF r.resp.status = 200
                   THEN creator \cup {[id |-> uuid, by |-> username,
                                       known |-> TeacherFound(username)]}
                   ELSE creator
    /\ UNCHANGED <<today, listed, pc, preq, presp>>

\* PUT /announcements/{announcement_id}
Update ==
    /\ req = NoRequest
    /\ \E id \in PathIds, payload \in Payloads, username \in Usernames :
        LET r == update_announcement(store, id, payload, username)
        IN  /\ store' = r.coll
            /\ resp' = r.resp
            /\ req' = Request("update", id, payload, username)
            /\ prev' = store
    /\ UNCHANGED <<issued, creator, today, listed, pc, preq, presp>>

\* DELETE /announcements/{announcement_id}
Delete ==
    /\ req = NoRequest
    /\ \E id \in PathIds, username \in Usernames :
        LET r == delete_announcement(store, id, username)
        IN  /\ store' = r.coll
            /\ resp' = r.resp
            /\ req' = Request("delete", id, EmptyPayload, username)
            /\ prev' = store
    /\ UNCHANGED <<issued, creator, today, listed, pc, preq, presp>>

\* the response is sent: the handler's locals are gone
Return ==
    /\ req # NoRequest
    /\ req' = NoRequest
    /\ resp' = NoResponse
    /\ prev' = {}
    /\ UNCHANGED <<store, issued, creator, today, listed, pc, preq, presp>>

Next == Create \/ Update \/ Delete \/ Return

Spec == Init /\ [][Next]_vars

(* --------------- SpecList: the two listings of a collection ------------ *)

\* the collections listed: documents as create_announcement stores them and
\* documents stored without start_date
ListIds == {Str(<<i>>) : i \in 1..MaxDocs}
ListFields == [text : {Str(<<1>>)},
               start_date : {Absent, None, Str(<<1>>), Str(<<2>>)},
               expiration_date : {Str(<<1>>), Str(<<1, 2>>), Str(<<2>>)}]
ListDoc(id, f) ==
    [_id |-> id, text |-> f.text, start_date |-> f.start_date,
     expiration_date |-> f.expiration_date, created_by |-> t1]
ListStores ==
    UNION {{{ListDoc(id, f[id]) : id \in I} : f \in [I -> ListFields]} :
              I \in SUBSET ListIds}

\* date.today().isoformat()
Todays == {Str(<<1, 2>>), Str(<<2>>)}

InitList ==
    /\ store \in ListStores
    /\ today \in Todays
    /\ issued = {d._id : d \in store}
    /\ creator = {}
    /\ prev = store
    /\ req = NoRequest
    /\ resp = NoResponse
    /\ listed = NoLists
    /\ pc = <<>>
    /\ preq = <<>>
    /\ presp = <<>>

\* GET /announcements
ListActive ==
    /\ \E result \in get_active_announcements(store, today) :
           listed' = [listed EXCEPT !.active = Response(200, result)]
    /\ prev' = store
    /\ UNCHANGED <<store, issued, creator, req, resp, today, pc, preq, presp>>

\* GET /announcements/all
ListAll ==
    /\ \E result \in get_all_announcements(store) :
           listed' = [listed EXCEPT !.all = Response(200, result)]
    /\ prev' = store
    /\ UNCHANGED <<store, issued, creator, req, resp, today, pc, preq, presp>>

NextList == ListActive \/ ListAll

SpecList == InitList /\ [][NextList]_vars

(* ------- SpecConc: two requests whose store calls are interleaved ------ *)
(* Each process answers one update or delete request; a step is one call   *)
(* of the store, with the handler's code up to the next call.  prev[p]     *)
(* records the collection before and after the write of process p.         *)

Procs == {1, 2}

\* the collection the two requests find: one record, as create stores it
SeedId == Str(<<1>>)
ConcStores ==
    {{[_id |-> SeedId, text |-> text, start_date |-> None,
       expiration_date |-> Str(<<1>>), created_by |-> t1]} :
        text \in {None, Str(<<1>>)}}

ConcIds == {SeedId, UnknownId}
ConcUsernames == {None, t2, Str(<<3>>)}
ConcPayloads ==
    {EmptyPayload,
     [text |-> Str(<<2>>), start_date |-> Absent, expiration_date |-> None],
     [text |-> Absent, start_date |-> Str(<<2>>), expiration_date |-> Str(<<2>>)]}

NoWrite == [before |-> {}, after |-> {}, done |-> FALSE]

InitConc ==
    /\ store \in ConcStores
    /\ issued = {SeedId}
    /\ creator = {[id |-> SeedId, by |-> t1, known |-> TRUE]}
    /\ prev = [p \in Procs |-> NoWrite]
    /\ req = NoRequest
    /\ resp = NoResponse
    /\ today = None
    /\ listed = NoLists
    /\ pc = [p \in Procs |-> "idle"]
    /\ preq = [p \in Procs |-> NoRequest]
    /\ presp = [p \in Procs |-> NoResponse]

\* update_announcement up to its first call of the announcements collection
UpdateBegin(p) ==
    /\ pc[p] = "idle"
    /\ \E id \in ConcIds, payload \in ConcPayloads, username \in ConcUsernames :
        /\ preq' = [preq EXCEPT ![p] = Request("update", id, payload, username)]
        /\ IF Unauthenticated(username)
           THEN /\ presp' = [presp EXCEPT ![p] = HTTPException(401)]
                /\ pc' = [pc EXCEPT ![p] = "done"]
           ELSE /\ presp' = presp
                /\ pc' = [pc EXCEPT ![p] = "find"]
    /\ UNCHANGED <<store, issued, creator, prev, req, resp, today, listed>>

\* find_one, the 404 check and the 400 check
UpdateFind(p) ==
    /\ pc[p] = "find"
    /\ IF FindOne(store, preq[p].id) = {}
       THEN /\ presp' = [presp EXCEPT ![p] = HTTPException(404)]
            /\ pc' = [pc EXCEPT ![p] = "done"]
       ELSE IF update_fields(preq[p].payload) = NoFields
       THEN /\ presp' = [presp EXCEPT ![p] = HTTPException(400)]
            /\ pc' = [pc EXCEPT ![p] = "done"]
       ELSE /\ presp' = presp
            /\ pc' = [pc EXCEPT ![p] = "write"]
    /\ UNCHANGED <<store, issued, creator, prev, req, resp, today, listed, preq>>

\* update_one
UpdateWrite(p) ==
    /\ pc[p] = "write"
    /\ store' = UpdateOne(store, preq[p].id, update_fields(preq[p].payload))
    /\ prev' = [prev EXCEPT ![p] = [before |-> store, after |-> store', done |-> TRUE]]
    /\ pc' = [pc EXCEPT ![p] = "reread"]
    /\ UNCHANGED <<issued, creator, req, resp, today, listed, preq, presp>>

\* the second find_one and _serialize
UpdateReread(p) ==
    /\ pc[p] = "reread"
    /\ presp' = [presp EXCEPT ![p] = Reread(store, preq[p].id)]
    /\ pc' = [pc EXCEPT ![p] = "done"]
    /\ UNCHANGED <<store, issued, creator, prev, req, resp, today, listed, preq>>

\* delete_announcement up to delete_one
DeleteBegin(p) ==
    /\ pc[p] = "idle"
    /\ \E id \in ConcIds, username \in ConcUsernames :
        /\ preq' = [preq EXCEPT ![p] = Request("delete", id, EmptyPayload, username)]
        /\ IF Unauthenticated(username)
           THEN /\ presp' = [presp EXCEPT ![p] = HTTPException(401)]
                /\ pc' = [pc EXCEPT ![p] = "done"]
           ELSE /\ presp' = presp
                /\ pc' = [pc EXCEPT ![p] = "delete"]
    /\ UNCHANGED <<store, issued, creator, prev, req, resp, today, listed>>

\* delete_one and the check of deleted_count
DeleteCall(p) ==
    /\ pc[p] = "delete"
    /\ store' = DeleteOne(store, preq[p].id)
    /\ prev' = [prev EXCEPT ![p] = [before |-> store, after |-> store', done |-> TRUE]]
    /\ presp' = [presp EXCEPT ![p] = DeleteResponse(DeletedCount(store, preq[p].id))]
    /\ pc' = [pc EXCEPT ![p] = "done"]
    /\ UNCHANGED <<issued, creator, req, resp, today, listed, preq>>

NextConc ==
    \E p \in Procs :
        \/ UpdateBegin(p)
        \/ UpdateFind(p)
        \/ UpdateWrite(p)
        \/ UpdateReread(p)
        \/ DeleteBegin(p)
        \/ DeleteCall(p)

SpecConc == InitConc /\ [][NextConc]_vars

(* ================ properties of create, update and delete ============== *)

\* a request has been answered and its response not yet sent
Answered(op) == req.op = op
AnyAnswered == req.op \in {"create", "update", "delete"}

\* the caller identity is absent, empty or names no teacher
NotAuthorized(username) ==
    username = None \/ username = Str(<<>>) \/ username \notin teachers_collection

\* the payload supplies a non-null value
Supplied(v) == v # Absent /\ v # None

HasId(coll, id) == \E d \in coll : d._id = id

\* C1: from an empty store, after any sequence of create, update and
\* delete requests, every stored record has a non-null expiration_date
C1_ExpirationNotNull ==
    \A d \in store : d.expiration_date # None /\ d.expiration_date # Absent

\* C1 witness: an update whose payload has a null start_date and an empty
\* expiration_date succeeded on a stored record
C1_Witness ==
    /\ Answered("update") /\ resp.status = 200
    /\ req.payload.start_date = None
    /\ req.payload.expiration_date = Str(<<>>)
    /\ \E d \in store : d._id = req.id /\ d.expiration_date = Str(<<>>)

\* C2: a create, update or delete whose caller identity is absent, empty
\* or unknown fails with 401 and leaves the store unchanged, whatever the
\* payload and whether or not the id exists
C2_UnauthorizedFirst ==
    (AnyAnswered /\ NotAuthorized(req.username)) =>
        resp.status = 401 /\ store = prev

\* C2 witness: an unknown caller updates a missing id with an empty payload
C2_Witness ==
    /\ Answered("update") /\ resp.status = 401
    /\ req.username = Str(<<3>>)
    /\ ~HasId(prev, req.id)
    /\ req.payload = EmptyPayload

\* the record a successful update of old with the payload p must leave
Updated(old, p) ==
    [_id |-> old._id,
     text |-> IF Supplied(p.text) THEN p.text ELSE old.text,
     start_date |-> IF Supplied(p.start_date) THEN p.start_date ELSE old.start_date,
     expiration_date |->
         IF Supplied(p.expiration_date) THEN p.expiration_date
         ELSE old.expiration_date,
     created_by |-> old.created_by]

\* C4: a successful update replaces exactly the fields the payload supplies
\* with a non-null value, keeps the others, the id and created_by, and
\* leaves every other record unchanged
C4_UpdateFrame ==
    (Answered("update") /\ resp.status = 200) =>
        \E old \in prev :
            /\ old._id = req.id
            /\ store = (prev \ {old}) \cup {Updated(old, req.payload)}
            /\ Cardinality(store) = Cardinality(prev)

\* C4 witness: an update with a text, no start_date and a null
\* expiration_date changed the text of one of two records
C4_Witness ==
    /\ Answered("update") /\ resp.status = 200
    /\ Supplied(req.payload.text)
    /\ req.payload.start_date = Absent
    /\ req.payload.expiration_date = None
    /\ Cardinality(prev) = 2
    /\ \E old \in prev :
           /\ old._id = req.id
           /\ old.text # req.payload.text
           /\ old.start_date # None
           /\ old.created_by # req.username

\* C5: an authorized update of a missing id fails with 404 whatever the
\* payload; of an existing id it fails with 400 exactly when text,
\* start_date and expiration_date are all absent or null; the store is
\* unchanged in both cases
C5_UpdateErrors ==
    (Answered("update") /\ ~NotAuthorized(req.username)) =>
        LET empty == /\ ~Supplied(req.payload.text)
                     /\ ~Supplied(req.payload.start_date)
                     /\ ~Supplied(req.payload.expiration_date)
        IN  IF ~HasId(prev, req.id)
            THEN resp.status = 404 /\ store = prev
            ELSE /\ (resp.status = 400) <=> empty
                 /\ resp.status = 400 => store = prev

\* C5 witness: an authorized update of a missing id with no recognized
\* field is answered 404, while the store holds another record
C5_Witness ==
    /\ Answered("update") /\ ~NotAuthorized(req.username)
    /\ ~HasId(prev, req.id)
    /\ prev # {}
    /\ req.payload = EmptyPayload
    /\ resp.status = 404

\* C6: an authorized create with a non-empty expiration_date adds exactly
\* one record, with a new non-empty id, the payload's values (null when
\* absent) and the caller as created_by, and returns its serialization;
\* with a missing, null or empty expiration_date it fails with 400 and
\* leaves the store unchanged
C6_Create ==
    (Answered("create") /\ ~NotAuthorized(req.username)) =>
        IF Supplied(req.payload.expiration_date)
           /\ req.payload.expiration_date # Str(<<>>)
        THEN /\ resp.status = 200
             /\ Cardinality(store) = Cardinality(prev) + 1
             /\ \E new \in store :
                    /\ store = prev \cup {new}
                    /\ IsStr(new._id) /\ new._id # Str(<<>>)
                    /\ ~HasId(prev, new._id)
                    /\ new.text = (IF req.payload.text = Absent THEN None
                                   ELSE req.payload.text)
                    /\ new.start_date = (IF req.payload.start_date = Absent THEN None
                                         ELSE req.payload.start_date)
                    /\ new.expiration_date = req.payload.expiration_date
                    /\ new.created_by = req.username
                    /\ resp.body = [id |-> new._id, text |-> new.text,
                                    start_date |-> new.start_date,
                                    expiration_date |-> new.expiration_date,
                                    created_by |-> new.created_by]
        ELSE resp.status = 400 /\ store = prev

\* C6 witness: a create with only an expiration_date added a second record
C6_Witness ==
    /\ Answered("create") /\ resp.status = 200
    /\ req.payload.text = Absent /\ req.payload.start_date = Absent
    /\ Cardinality(prev) = 1
    /\ resp.body.text = None /\ resp.body.start_date = None
    /\ resp.body.created_by = t2

\* C10: no two stored records share an id, and the created_by of every
\* stored record is the caller of the create that inserted it, who was a
\* teacher when the create ran; no update changes it
C10_Provenance ==
    /\ \A d, e \in store : d._id = e._id => d = e
    /\ \A c, e \in creator : c.id = e.id => c = e
    /\ \A d \in store :
           \E c \in creator : c.id = d._id /\ c.by = d.created_by /\ c.known

\* C10 witness: a teacher has updated a record another teacher created
C10_Witness ==
    /\ Answered("update") /\ resp.status = 200
    /\ \E d \in store :
           d._id = req.id /\ d.created_by # req.username /\ d.created_by = t1
    /\ Cardinality(store) = 2

(* ===================== properties of concurrent requests =============== *)

\* process p has answered an authorized request op
Finished(p, op) ==
    pc[p] = "done" /\ preq[p].op = op /\ ~NotAuthorized(preq[p].username)

\* no listing of the collection, on any day, has a record with this id
Unlisted(coll, id) ==
    /\ \A r \in get_all_announcements(coll) : \A i \in 1..Len(r) : r[i].id # id
    /\ \A day \in Todays :
           \A r \in get_active_announcements(coll, day) :
               \A i \in 1..Len(r) : r[i].id # id

C8_UpdateOutcomes ==
    \A p \in Procs :
        (pc[p] = "done" /\ preq[p].op = "update") =>
            /\ presp[p].status \in {200, 400, 401, 404}
            /\ presp[p].status = 200 =>
                   /\ HasId(prev[p].before, preq[p].id)
                   /\ presp[p].body.id = preq[p].id

(* ======================= properties of the listings ==================== *)

Range(q) == {q[i] : i \in 1..Len(q)}

\* q is sorted by expiration_date, smallest first
SortedByExpiration(q) ==
    \A i, j \in 1..Len(q) :
        i < j => LexLeq(q[i].expiration_date.s, q[j].expiration_date.s)

\* a is b with some elements left out
IsSubsequence(a, b) ==
    \E f \in [1..Len(a) -> 1..Len(b)] :
        /\ \A i, j \in 1..Len(a) : i < j => f[i] < f[j]
        /\ \A i \in 1..Len(a) : a[i] = b[f[i]]

\* a record is active on a day: not expired, and started or without a start
IsActive(d, day) ==
    /\ LexLeq(day.s, d.expiration_date.s)
    /\ (d.start_date \in {Absent, None} \/ LexLeq(d.start_date.s, day.s))

Expired(d, day) == ~LexLeq(day.s, d.expiration_date.s)

\* C3: list_active returns exactly the serialized records with
\* expiration_date >= today and start_date absent, null or <= today, each
\* once, in non-decreasing order of expiration_date, and leaves the store
\* unchanged
C3_ListActiveExact ==
    listed.active.status = 200 =>
        LET body == listed.active.body
            want == {d \in store : IsActive(d, today)}
        IN  /\ Range(body) = {_serialize(d) : d \in want}
            /\ Len(body) = Cardinality(want)
            /\ SortedByExpiration(body)
            /\ store = prev

\* C3 witness: a listing that holds a record without start_date and leaves
\* out a record that is expired or not started
C3_Witness ==
    /\ listed.active.status = 200
    /\ Len(listed.active.body) >= 1
    /\ Len(listed.active.body) < Cardinality(store)
    /\ \E d \in store : d.start_date = Absent /\ IsActive(d, today)
    /\ \E d \in store : IsStr(d.start_date) /\ ~IsActive(d, today)

\* list_all returns every stored record once, unfiltered, sorted
ListAllComplete ==
    listed.all.status = 200 =>
        /\ Range(listed.all.body) = {_serialize(d) : d \in store}
        /\ Len(listed.all.body) = Cardinality(store)
        /\ SortedByExpiration(listed.all.body)

\* a record that expired before today is not in list_active but in list_all
ExpiredOnlyInAll ==
    (listed.all.status = 200 /\ listed.active.status = 200) =>
        \A d \in store :
            Expired(d, today) =>
                /\ _serialize(d) \notin Range(listed.active.body)
                /\ _serialize(d) \in Range(listed.all.body)

\* C9 as stated: list_all returns every stored record exactly once, sorted
\* by expiration_date, the result of list_active on the same store is a
\* subsequence of it, and an expired record is in list_all only
C9_Original ==
    /\ ListAllComplete
    /\ ExpiredOnlyInAll
    /\ (listed.all.status = 200 /\ listed.active.status = 200) =>
           IsSubsequence(listed.active.body, listed.all.body)

\* the stored records have pairwise different expiration dates
DistinctExpirations ==
    \A d, e \in store : d.expiration_date = e.expiration_date => d = e

\* C9 amended: list_all returns every stored record exactly once, sorted by
\* expiration_date; every record of list_active's result is in it; the
\* result of list_active is a subsequence of it when no two stored records
\* have the same expiration_date; an expired record is in list_all only
C9_ListAllSuperset ==
    /\ ListAllComplete
    /\ ExpiredOnlyInAll
    /\ (listed.all.status = 200 /\ listed.active.status = 200) =>
           /\ Range(listed.active.body) \subseteq Range(listed.all.body)
           /\ DistinctExpirations =>
                  IsSubsequence(listed.active.body, listed.all.body)

\* C9 witness: both listings were made of a store with an expired record and
\* an active one
C9_Witness ==
    /\ listed.all.status = 200
    /\ listed.active.status = 200
    /\ Len(listed.active.body) >= 1
    /\ Len(listed.all.body) > Len(listed.active.body)
    /\ \E d \in store : Expired(d, today)

====
